---- MODULE Spec2Model ----
(***************************************************************************)
(* Model of migrator.py: the SQLite -> PostgreSQL migration run.           *)
(*                                                                         *)
(* Python strings that the program inspects character by character         *)
(* (identifiers, declared types, text values, emitted SQL literals) are    *)
(* sequences of one-character strings, so that lower(), upper(), strip(),  *)
(* split(',') and replace("'", "''") are computed, not assumed.            *)
(* SQL statements are kept structured (operation, table, column list,      *)
(* value list) instead of as one concatenated string.                      *)
(***************************************************************************)
EXTENDS Integers, Sequences, FiniteSets, TLC

VARIABLES
    sqlite,           \* source database: sequence of tables in enumeration order
    pgCommitted,      \* destination database, committed contents
    pgWork,           \* destination database as seen inside the open transaction
    pc,               \* position in migrate(): "tables" | "rows" | "done" | "error"
    ti,               \* index into sqlite of the table being processed
    ri,               \* index of the next source row of that table
    table_exists,     \* local of migrate(), line 90
    pg_column_types,  \* local of migrate(), lines 111-113
    stmts,            \* CREATE / INSERT statements handed to pg_cursor.execute, this run
    console,          \* per-table progress lines printed, this run
    run,              \* number of the current invocation of migrate()
    pg0,              \* destination contents when the current invocation started
    prev              \* how the previous invocation ended: "none" | "done" | "error"

vars == <<sqlite, pgCommitted, pgWork, pc, ti, ri, table_exists, pg_column_types,
          stmts, console, run, pg0, prev>>

-----------------------------------------------------------------------------
(* Bounds of the model *)

\* longest generated text value
MaxLen == 3
\* most tables in a generated multi-table source database
MaxTables == 2
\* most rows already present in a destination table
MaxDestRows == 1
\* invocations of migrate() in a row
MaxRuns == 2
\* generated integer values range over -MaxInt..MaxInt
MaxInt == 2

-----------------------------------------------------------------------------
(* Python string primitives *)

UpperChars == <<"A","B","C","D","E","F","G","H","I","J","K","L","M",
                "N","O","P","Q","R","S","T","U","V","W","X","Y","Z">>
LowerChars == <<"a","b","c","d","e","f","g","h","i","j","k","l","m",
                "n","o","p","q","r","s","t","u","v","w","x","y","z">>

lower_char(c) ==
    IF \E i \in 1..26 : UpperChars[i] = c
    THEN LowerChars[CHOOSE i \in 1..26 : UpperChars[i] = c]
    ELSE c

upper_char(c) ==
    IF \E i \in 1..26 : LowerChars[i] = c
    THEN UpperChars[CHOOSE i \in 1..26 : LowerChars[i] = c]
    ELSE c

\* str.lower()
lower(s) == [i \in 1..Len(s) |-> lower_char(s[i])]

\* str.upper()
upper(s) == [i \in 1..Len(s) |-> upper_char(s[i])]

\* chr(39)
Quote == "'"

Whitespace == {" ", "\t", "\n", "\r"}

RECURSIVE lstrip(_)
lstrip(s) ==
    IF s # <<>> /\ Head(s) \in Whitespace THEN lstrip(Tail(s)) ELSE s

RECURSIVE rstrip(_)
rstrip(s) ==
    IF s # <<>> /\ s[Len(s)] \in Whitespace
    THEN rstrip(SubSeq(s, 1, Len(s) - 1))
    ELSE s

\* str.strip()
strip(s) == rstrip(lstrip(s))

\* faulty variant: a quote is escaped with a backslash
RECURSIVE replace_quote_backslash(_)
replace_quote_backslash(s) ==
    IF s = <<>> THEN <<>>
    ELSE IF Head(s) = Quote
         THEN <<"\\", Quote>> \o replace_quote_backslash(Tail(s))
         ELSE <<Head(s)>> \o replace_quote_backslash(Tail(s))

\* str.replace(chr(39), chr(39)+chr(39))
RECURSIVE replace_quote(_)
replace_quote(s) ==
    IF s = <<>> THEN <<>>
    ELSE IF Head(s) = Quote
         THEN <<Quote, Quote>> \o replace_quote(Tail(s))
         ELSE <<Head(s)>> \o replace_quote(Tail(s))

\* str.split(','): the pieces between commas, empty pieces kept
RECURSIVE split_comma(_)
split_comma(s) ==
    IF \A i \in 1..Len(s) : s[i] # ","
    THEN <<s>>
    ELSE LET k == CHOOSE i \in 1..Len(s) :
                      s[i] = "," /\ \A j \in 1..(i - 1) : s[j] # ","
         IN  <<SubSeq(s, 1, k - 1)>> \o split_comma(SubSeq(s, k + 1, Len(s)))

\* ','.join(parts)
RECURSIVE join_comma(_)
join_comma(parts) ==
    IF parts = <<>> THEN <<>>
    ELSE IF Len(parts) = 1 THEN parts[1]
    ELSE parts[1] \o <<",">> \o join_comma(Tail(parts))

Digits == <<"0","1","2","3","4","5","6","7","8","9">>

RECURSIVE nat_str(_)
nat_str(n) ==
    IF n < 10 THEN <<Digits[n + 1]>>
    ELSE nat_str(n \div 10) \o <<Digits[(n % 10) + 1]>>

\* str(value) of an int
int_str(n) == IF n < 0 THEN <<"-">> \o nat_str(-n) ELSE nat_str(n)

\* str(value) of a float held as a number of tenths (15 is 1.5)
float_str(t) ==
    LET a == IF t < 0 THEN -t ELSE t
    IN  (IF t < 0 THEN <<"-">> ELSE <<>>)
        \o nat_str(a \div 10) \o <<".">> \o nat_str(a % 10)


-----------------------------------------------------------------------------
(* sqlite_to_pg_type *)

kw_scope == <<"s","c","o","p","e">>

\* the dict type_mapping, keys as character sequences
type_mapping ==
    { <<<<"I","N","T","E","G","E","R">>, "INTEGER">>,
      <<<<"R","E","A","L">>, "DOUBLE PRECISION">>,
      <<<<"T","E","X","T">>, "TEXT">>,
      <<<<"B","L","O","B">>, "BYTEA">>,
      <<<<"B","O","O","L","E","A","N">>, "BOOLEAN">>,
      <<<<"T","I","M","E","S","T","A","M","P">>, "TIMESTAMP">>,
      <<<<"J","S","O","N">>, "JSONB">>,
      <<<<"V","A","R","C","H","A","R","(","2","5","5",")">>, "VARCHAR(255)">> }

\* dict.get(key, default)
mapping_get(m, key, default) ==
    IF \E e \in m : e[1] = key
    THEN (CHOOSE e \in m : e[1] = key)[2]
    ELSE default

\* faulty variant: the column name is compared without lower()
sqlite_to_pg_type_case_sensitive(sqlite_type, column_name) ==
    IF column_name = kw_scope
    THEN "TEXT[]"
    ELSE mapping_get(type_mapping, upper(sqlite_type), "TEXT")

sqlite_to_pg_type(sqlite_type, column_name) ==
    IF lower(column_name) = kw_scope
    THEN "TEXT[]"
    ELSE mapping_get(type_mapping, upper(sqlite_type), "TEXT")

-----------------------------------------------------------------------------
(* get_safe_identifier *)

reserved_keywords ==
    { <<"u","s","e","r">>,
      <<"g","r","o","u","p">>,
      <<"o","r","d","e","r">>,
      <<"t","a","b","l","e">>,
      <<"s","e","l","e","c","t">>,
      <<"w","h","e","r","e">>,
      <<"f","r","o","m">>,
      <<"i","n","d","e","x">>,
      <<"c","o","n","s","t","r","a","i","n","t">> }

DQ == "\""

\* faulty variant: the identifier is compared without lower()
get_safe_identifier_case_sensitive(identifier) ==
    IF identifier \in reserved_keywords
    THEN <<DQ>> \o identifier \o <<DQ>>
    ELSE identifier

get_safe_identifier(identifier) ==
    IF lower(identifier) \in reserved_keywords
    THEN <<DQ>> \o identifier \o <<DQ>>
    ELSE identifier

-----------------------------------------------------------------------------
(* Python values read from SQLite *)

\* None
PyNone == [t |-> "null", n |-> 0, s |-> <<>>]
\* an int
PyInt(k) == [t |-> "int", n |-> k, s |-> <<>>]
\* a float, held as a number of tenths
PyFloat(k) == [t |-> "float", n |-> k, s |-> <<>>]
\* a str
PyStr(x) == [t |-> "str", n |-> 0, s |-> x]

\* faulty variant: truthiness instead of equality with 1
equals_one_truthy(value) ==
    \/ value.t \in {"int", "float"} /\ value.n # 0
    \/ value.t = "str" /\ value.s # <<>>

\* value == 1
equals_one(value) ==
    \/ value.t = "int" /\ value.n = 1
    \/ value.t = "float" /\ value.n = 10

\* not value
falsy(value) ==
    \/ value.t = "null"
    \/ value.t \in {"int", "float"} /\ value.n = 0
    \/ value.t = "str" /\ value.s = <<>>

\* str(value)
py_str(value) ==
    CASE value.t = "int" -> int_str(value.n)
      [] value.t = "float" -> float_str(value.n)
      [] value.t = "str" -> value.s
      [] OTHER -> <<"N","o","n","e">>

-----------------------------------------------------------------------------
(* Row translation: the body of the row loop of migrate() *)

lit_NULL == <<"N","U","L","L">>
lit_true == <<"t","r","u","e">>
lit_false == <<"f","a","l","s","e">>
lit_ARRAY == <<"A","R","R","A","Y","[">>

Emit(l) == [exc |-> FALSE, lit |-> l]
\* value.split on a value that is not a str raises
Raise == [exc |-> TRUE, lit |-> <<>>]

\* f"'{value.replace(chr(39), chr(39)+chr(39))}'"
quote_text(s) == <<Quote>> \o replace_quote(s) \o <<Quote>>

\* faulty variant: the piece is not stripped
array_element_unstripped(v) == <<Quote>> \o replace_quote(v) \o <<Quote>>

\* f"'{v.strip().replace(chr(39), chr(39)+chr(39))}'"
array_element(v) == <<Quote>> \o replace_quote(strip(v)) \o <<Quote>>

\* the list comprehension over value.split(',')
array_values(s) ==
    LET parts == split_comma(s)
    IN  [i \in 1..Len(parts) |-> array_element(parts[i])]

\* f"ARRAY[{','.join(array_values)}]"
array_literal(s) == lit_ARRAY \o join_comma(array_values(s)) \o <<"]">>

\* the if / elif chain on one (col_type, value) pair
translate_value(col_type, value) ==
    IF value.t = "null" THEN Emit(lit_NULL)
    ELSE IF col_type = "boolean"
         THEN Emit(IF equals_one(value) THEN lit_true ELSE lit_false)
    ELSE IF col_type = "ARRAY"
         THEN IF falsy(value) THEN Emit(lit_NULL)
              ELSE IF value.t = "str" THEN Emit(array_literal(value.s))
              ELSE Raise
    ELSE IF value.t = "str" THEN Emit(quote_text(value.s))
    ELSE Emit(py_str(value))

\* pg_column_types.get(col_name)
column_type_get(types, col_name) ==
    IF col_name \in DOMAIN types THEN types[col_name] ELSE "None"

Min(a, b) == IF a < b THEN a ELSE b

\* values for zip(column_names, row); the first exception ends the row
translate_row(types, column_names, row) ==
    LET n == Min(Len(column_names), Len(row))
        each == [i \in 1..n |->
                    translate_value(column_type_get(types, column_names[i]), row[i])]
    IN  [exc |-> \E i \in 1..n : each[i].exc,
         values |-> [i \in 1..n |-> each[i].lit]]


-----------------------------------------------------------------------------
(* The PostgreSQL destination, as the queries of migrate() see it.         *)
(* A database maps a table name to [exists, columns, rows]; a name is      *)
(* resolved exactly as the program passes it.                              *)

AbsentTable == [exists |-> FALSE, columns |-> <<>>, rows |-> <<>>]

\* what information_schema.columns reports for a column created with a given type
catalog(pg_type) ==
    CASE pg_type = "TEXT[]" -> [data_type |-> "ARRAY", udt_name |-> <<"_","t","e","x","t">>]
      [] pg_type = "INTEGER" -> [data_type |-> "integer", udt_name |-> <<"i","n","t","4">>]
      [] pg_type = "DOUBLE PRECISION" ->
             [data_type |-> "double precision", udt_name |-> <<"f","l","o","a","t","8">>]
      [] pg_type = "BYTEA" -> [data_type |-> "bytea", udt_name |-> <<"b","y","t","e","a">>]
      [] pg_type = "BOOLEAN" -> [data_type |-> "boolean", udt_name |-> <<"b","o","o","l">>]
      [] pg_type = "TIMESTAMP" ->
             [data_type |-> "timestamp without time zone", udt_name |-> <<"t","i","m","e","s","t","a","m","p">>]
      [] pg_type = "JSONB" -> [data_type |-> "jsonb", udt_name |-> <<"j","s","o","n","b">>]
      [] pg_type = "VARCHAR(255)" ->
             [data_type |-> "character varying", udt_name |-> <<"v","a","r","c","h","a","r">>]
      [] OTHER -> [data_type |-> "text", udt_name |-> <<"t","e","x","t">>]

pg_column(column_name, pg_type) ==
    [column_name |-> column_name,
     data_type |-> catalog(pg_type).data_type,
     udt_name |-> catalog(pg_type).udt_name]

\* SELECT EXISTS (SELECT FROM information_schema.tables WHERE table_name = %s)
select_exists(db, table_name) == db[table_name].exists

\* SELECT COUNT(*) FROM table
select_count(db, table_name) == Len(db[table_name].rows)

\* col[2].startswith('_')
starts_with_underscore(udt_name) == udt_name # <<>> /\ Head(udt_name) = "_"

\* the dict built from SELECT column_name, data_type, udt_name
fetch_column_types(db, table_name) ==
    LET cols == db[table_name].columns
    IN  [c \in {cols[i].column_name : i \in 1..Len(cols)} |->
            LET col == CHOOSE x \in {cols[i] : i \in 1..Len(cols)} : x.column_name = c
            IN  IF starts_with_underscore(col.udt_name) THEN "ARRAY" ELSE col.data_type]

\* pg_conn.rollback(): the open transaction's changes are dropped
rollback(committed, work) == committed

\* faulty variant: the commit is lost
commit_lost(committed, work) == committed

\* pg_conn.commit(): the open transaction's changes become the contents
commit(committed, work) == work

-----------------------------------------------------------------------------
(* The table loop of migrate() *)

migration_tables ==
    { <<"m","i","g","r","a","t","e","h","i","s","t","o","r","y">>,
      <<"a","l","e","m","b","i","c","_","v","e","r","s","i","o","n">> }

\* faulty variant: only the first bookkeeping table is recognised
is_migration_table_history_only(table_name) ==
    table_name = <<"m","i","g","r","a","t","e","h","i","s","t","o","r","y">>

\* table_name in ('migratehistory', 'alembic_version')
is_migration_table(table_name) == table_name \in migration_tables

\* faulty variant: the comparison is off by one
has_existing_rows_above_one(row_count) == row_count > 1

\* row_count > 0
has_existing_rows(row_count) == row_count > 0

\* if table_exists: ... if row_count > 0: continue
skips_populated(db, table_name) ==
    /\ select_exists(db, table_name)
    /\ has_existing_rows(select_count(db, table_name))

\* the columns list of the CREATE TABLE statement
create_table_sql(t, schema) ==
    [op |-> "CREATE", ti |-> t, ri |-> 0, name |-> sqlite[t].name,
     table |-> get_safe_identifier(sqlite[t].name),
     columns |-> [i \in 1..Len(schema) |-> get_safe_identifier(schema[i].name)],
     types |-> [i \in 1..Len(schema) |-> sqlite_to_pg_type(schema[i].type, schema[i].name)],
     values |-> <<>>]

\* the destination table a CREATE TABLE IF NOT EXISTS leaves
created_table(schema) ==
    [exists |-> TRUE,
     columns |-> [i \in 1..Len(schema) |->
                     pg_column(schema[i].name,
                               sqlite_to_pg_type(schema[i].type, schema[i].name))],
     rows |-> <<>>]

\* column_names = [description[0] for description in sqlite_cursor.description]
column_names(schema) == [i \in 1..Len(schema) |-> schema[i].name]

insert_sql(t, r, names, values) ==
    [op |-> "INSERT", ti |-> t, ri |-> r, name |-> sqlite[t].name,
     table |-> get_safe_identifier(sqlite[t].name),
     columns |-> [i \in 1..Len(names) |-> get_safe_identifier(names[i])],
     types |-> <<>>,
     values |-> values]

progress(t, line, exists, row_count) ==
    [ti |-> t, name |-> sqlite[t].name, line |-> line,
     table_exists |-> exists, row_count |-> row_count]

AtTable == pc = "tables" /\ ti <= Len(sqlite)
AtRow == pc = "rows" /\ ri <= Len(sqlite[ti].rows)

\* lines 78-81
SkipMigrationTable ==
    /\ AtTable
    /\ is_migration_table(sqlite[ti].name)
    /\ console' = Append(console, progress(ti, "skipping: migration table", FALSE, 0))
    /\ ti' = ti + 1
    /\ UNCHANGED <<sqlite, pgCommitted, pgWork, pc, ri, table_exists, pg_column_types,
                   stmts, run, pg0, prev>>

\* lines 83-97
SkipPopulated ==
    /\ AtTable
    /\ ~is_migration_table(sqlite[ti].name)
    /\ skips_populated(pgWork, sqlite[ti].name)
    /\ table_exists' = TRUE
    /\ console' = Append(console,
                         progress(ti, "skipping table: has existing rows", TRUE,
                                  select_count(pgWork, sqlite[ti].name)))
    /\ ti' = ti + 1
    /\ UNCHANGED <<sqlite, pgCommitted, pgWork, pc, ri, pg_column_types,
                   stmts, run, pg0, prev>>

\* lines 83-135: the table is to be migrated; column types are read, then the
\* table is created when it does not exist, then the source rows are read
BeginMigrate ==
    /\ AtTable
    /\ ~is_migration_table(sqlite[ti].name)
    /\ ~skips_populated(pgWork, sqlite[ti].name)
    /\ LET table_name == sqlite[ti].name
           exists == select_exists(pgWork, table_name)
       IN  /\ table_exists' = exists
           /\ console' = Append(console,
                  progress(ti, "migrating", exists,
                           IF exists THEN select_count(pgWork, table_name) ELSE 0))
           /\ pg_column_types' = fetch_column_types(pgWork, table_name)
           /\ IF ~exists
              THEN /\ stmts' = Append(stmts, create_table_sql(ti, sqlite[ti].schema))
                   /\ pgWork' = [pgWork EXCEPT ![table_name] =
                                    created_table(sqlite[ti].schema)]
              ELSE UNCHANGED <<stmts, pgWork>>
    /\ pc' = "rows"
    /\ ri' = 1
    /\ UNCHANGED <<sqlite, pgCommitted, ti, run, pg0, prev>>

\* lines 83-130 when PostgreSQL rejects one of the statements, then 177-185
PlanRejected ==
    /\ AtTable
    /\ ~is_migration_table(sqlite[ti].name)
    /\ \E at_create \in BOOLEAN :
          /\ at_create =>
                 /\ ~select_exists(pgWork, sqlite[ti].name)
          /\ stmts' = IF at_create
                      THEN Append(stmts, create_table_sql(ti, sqlite[ti].schema))
                      ELSE stmts
    /\ pgWork' = rollback(pgCommitted, pgWork)
    /\ pc' = "error"
    /\ UNCHANGED <<sqlite, pgCommitted, ti, ri, table_exists, pg_column_types,
                   console, run, pg0, prev>>

\* faulty variant: each INSERT is committed as soon as it is executed
InsertRow_committing ==
    /\ AtRow
    /\ LET names == column_names(sqlite[ti].schema)
           tr == translate_row(pg_column_types, names, sqlite[ti].rows[ri])
       IN  /\ ~tr.exc
           /\ stmts' = Append(stmts, insert_sql(ti, ri, names, tr.values))
           /\ pgWork' = [pgWork EXCEPT ![sqlite[ti].name].rows = Append(@, tr.values)]
    /\ pgCommitted' = pgWork'
    /\ ri' = ri + 1
    /\ UNCHANGED <<sqlite, pc, ti, table_exists, pg_column_types,
                   console, run, pg0, prev>>

\* lines 137-165: one row translated and inserted
InsertRow ==
    /\ AtRow
    /\ LET names == column_names(sqlite[ti].schema)
           tr == translate_row(pg_column_types, names, sqlite[ti].rows[ri])
       IN  /\ ~tr.exc
           /\ stmts' = Append(stmts, insert_sql(ti, ri, names, tr.values))
           /\ pgWork' = [pgWork EXCEPT ![sqlite[ti].name].rows = Append(@, tr.values)]
    /\ ri' = ri + 1
    /\ UNCHANGED <<sqlite, pgCommitted, pc, ti, table_exists, pg_column_types,
                   console, run, pg0, prev>>

\* lines 142-160 raise, then 167-170 and 177-185
TranslateError ==
    /\ AtRow
    /\ translate_row(pg_column_types, column_names(sqlite[ti].schema),
                     sqlite[ti].rows[ri]).exc
    /\ pgWork' = rollback(pgCommitted, pgWork)
    /\ pc' = "error"
    /\ UNCHANGED <<sqlite, pgCommitted, ti, ri, table_exists, pg_column_types,
                   stmts, console, run, pg0, prev>>

\* line 165 raises: PostgreSQL rejects the INSERT; then 167-170 and 177-185
InsertRejected ==
    /\ AtRow
    /\ LET names == column_names(sqlite[ti].schema)
           tr == translate_row(pg_column_types, names, sqlite[ti].rows[ri])
       IN  /\ ~tr.exc
           /\ stmts' = Append(stmts, insert_sql(ti, ri, names, tr.values))
    /\ pgWork' = rollback(pgCommitted, pgWork)
    /\ pc' = "error"
    /\ UNCHANGED <<sqlite, pgCommitted, ti, ri, table_exists, pg_column_types,
                   console, run, pg0, prev>>

\* lines 172-173
CommitTable ==
    /\ pc = "rows"
    /\ ri > Len(sqlite[ti].rows)
    /\ pgCommitted' = commit(pgCommitted, pgWork)
    /\ pc' = "tables"
    /\ ti' = ti + 1
    /\ UNCHANGED <<sqlite, pgWork, ri, table_exists, pg_column_types,
                   stmts, console, run, pg0, prev>>

\* lines 175, 181-185
Finish ==
    /\ pc = "tables"
    /\ ti > Len(sqlite)
    /\ pc' = "done"
    /\ pgWork' = pgCommitted
    /\ UNCHANGED <<sqlite, pgCommitted, ti, ri, table_exists, pg_column_types,
                   stmts, console, run, pg0, prev>>

\* lines 187-188 once more: the program is started again on the same databases
Rerun ==
    /\ pc \in {"done", "error"}
    /\ run < MaxRuns
    /\ run' = run + 1
    /\ prev' = pc
    /\ pg0' = pgCommitted
    /\ pgWork' = pgCommitted
    /\ pc' = "tables"
    /\ ti' = 1
    /\ ri' = 1
    /\ table_exists' = FALSE
    /\ pg_column_types' = <<>>
    /\ stmts' = <<>>
    /\ console' = <<>>
    /\ UNCHANGED <<sqlite, pgCommitted>>

Next ==
    \/ SkipMigrationTable
    \/ SkipPopulated
    \/ BeginMigrate
    \/ PlanRejected
    \/ InsertRow
    \/ TranslateError
    \/ InsertRejected
    \/ CommitTable
    \/ Finish
    \/ Rerun


-----------------------------------------------------------------------------
(* Databases the program is started on *)

Column(name, type) == [name |-> name, type |-> type]
Table(name, schema, rows) == [name |-> name, schema |-> schema, rows |-> rows]

n_id == <<"i","d">>
t_INTEGER == <<"I","N","T","E","G","E","R">>
t_TEXT == <<"T","E","X","T">>
t_BOOLEAN == <<"B","O","O","L","E","A","N">>
\* a column declared without a type keeps every value as it was stored
t_none == <<>>

s_As == <<"A","'","s">>
s_read_write == <<"r","e","a","d",",","w","r","i","t","e">>
s_a_b_c == <<"a",",","b",",","c">>
s_OBrien == <<"O","'","B","r","i","e","n">>

T_alembic_version ==
    Table(<<"a","l","e","m","b","i","c","_","v","e","r","s","i","o","n">>,
          <<Column(<<"v","e","r","s","i","o","n","_","n","u","m">>, <<"V","A","R","C","H","A","R","(","3","2",")">>)>>,
          << <<PyStr(<<"a","1">>)>> >>)

T_orders ==
    Table(<<"o","r","d","e","r","s">>,
          <<Column(n_id, t_INTEGER), Column(<<"n","a","m","e">>, t_TEXT),
            Column(kw_scope, t_TEXT)>>,
          << <<PyInt(1), PyStr(s_As), PyStr(s_read_write)>> >>)

T_user ==
    Table(<<"u","s","e","r">>,
          <<Column(n_id, t_INTEGER), Column(<<"a","c","t","i","v","e">>, t_BOOLEAN),
            Column(<<"g","r","o","u","p">>, t_TEXT)>>,
          << <<PyInt(1), PyInt(1), PyStr(s_OBrien)>>,
             <<PyInt(2), PyInt(0), PyNone>> >>)

T_tag ==
    Table(<<"t","a","g">>,
          <<Column(n_id, t_INTEGER), Column(kw_scope, t_none)>>,
          << <<PyInt(1), PyStr(<<"a",","," ","b">>)>>,
             <<PyInt(2), PyInt(5)>> >>)

T_memo ==
    Table(<<"m","e","m","o">>, <<Column(n_id, t_INTEGER)>>, <<>>)

Universe == {T_alembic_version, T_orders, T_user, T_tag, T_memo}

\* a row that was in a destination table before the program ran
ExistingRow == << <<"o","l","d">> >>

\* a destination table that exists with the given columns and k rows
ExistingTable(columns, k) ==
    [exists |-> TRUE, columns |-> columns, rows |-> [i \in 1..k |-> ExistingRow]]

\* how a table of the source may be found at the destination:
\* 0 is absent, k + 1 is present with k rows and the columns a CREATE would give
DestOption(schema, o) ==
    IF o = 0 THEN AbsentTable
    ELSE ExistingTable(created_table(schema).columns, o - 1)

SourceLists ==
    UNION { { s \in [1..n -> Universe] : \A i, j \in 1..n : s[i] = s[j] => i = j }
            : n \in 0..MaxTables }

Index(src, name) == CHOOSE i \in 1..Len(src) : src[i].name = name

Names(src) == {src[i].name : i \in 1..Len(src)}

\* family A: several application tables, each found absent, empty or populated
MultiTableStarts ==
    UNION { { [src |-> s,
               dest |-> [nm \in Names(s) |->
                            DestOption(s[Index(s, nm)].schema, o[Index(s, nm)])]]
              : o \in [1..Len(s) -> 0..(MaxDestRows + 1)] }
            : s \in SourceLists }

Alphabet == {"a", "'", ",", " ", "\\"}

RECURSIVE Strings(_)
Strings(n) ==
    IF n = 0 THEN {<<>>}
    ELSE Strings(n - 1)
         \cup {Append(s, c) : s \in {x \in Strings(n - 1) : Len(x) = n - 1}, c \in Alphabet}

Values ==
    {PyNone}
    \cup {PyInt(k) : k \in (-MaxInt)..MaxInt}
    \cup {PyInt(12)}
    \cup {PyFloat(5 * k) : k \in (-MaxInt)..MaxInt}
    \cup {PyStr(x) : x \in Strings(MaxLen)}
    \cup {PyStr(s_a_b_c), PyStr(s_OBrien), PyStr(s_read_write),
          PyStr(<<" ","x"," ",",","y","'","z"," ">>), PyStr(<<"1">>)}

n_probe == <<"p","r","o","b","e">>
n_v == <<"v">>

ProbeTypes == {"BOOLEAN", "TEXT[]", "TEXT", "INTEGER"}

\* family B: one table with one column holding one value; the destination
\* table is absent, or exists empty with the column of some type
ValueStarts ==
    { [src |-> << Table(n_probe, <<Column(n_v, t_none)>>, << <<val>> >>) >>,
       dest |-> [nm \in {n_probe} |-> d]]
      : val \in Values,
        d \in {AbsentTable}
              \cup {ExistingTable(<<pg_column(n_v, ty)>>, 0) : ty \in ProbeTypes} }

\* a word with its first k letters in upper case, for every k
CaseVariants(w) ==
    { [i \in 1..Len(w) |-> IF i <= k THEN upper_char(w[i]) ELSE w[i]] : k \in 0..Len(w) }

DeclaredTypes ==
    UNION { CaseVariants(lower(e[1])) : e \in type_mapping }
    \cup { <<"F","O","O","B","A","R">>,
           <<>>,
           <<"I","N","T">>,
           <<"V","A","R","C","H","A","R","(","3","2",")">>,
           <<"D","A","T","E","T","I","M","E">>,
           <<"T","E","X","T"," ">>,
           <<"T","E","X","T","[","]">> }

TypedColumnNames ==
    CaseVariants(kw_scope)
    \cup { <<"s","c","o","p","e","s">>, <<" ","s","c","o","p","e">>, <<"x">>, n_id }

n_t == <<"t">>

\* family C: one absent table with one column of some name and declared type
TypeStarts ==
    { [src |-> << Table(n_t, <<Column(cn, ty)>>, << <<PyInt(1)>> >>) >>,
       dest |-> [nm \in {n_t} |-> AbsentTable]]
      : cn \in TypedColumnNames, ty \in DeclaredTypes }

Identifiers ==
    UNION { CaseVariants(w) : w \in reserved_keywords \cup migration_tables }
    \cup UNION { CaseVariants(w) : w \in { <<"u","s","e","r","s">>, <<"o","r","d","e">>, <<"f","r","o","m","_">> } }
    \cup { <<"\"","u","s","e","r","\"">>, <<"u","s","e","r"," ">>, <<"u","s"," ","e","r">>, n_id }

\* family D: one absent table; the table name, or its column name, is any identifier
IdentifierStarts ==
    { [src |-> << Table(id, <<Column(n_v, t_INTEGER)>>, << <<PyInt(1)>> >>) >>,
       dest |-> [nm \in {id} |-> AbsentTable]] : id \in Identifiers }
    \cup
    { [src |-> << Table(n_t, <<Column(id, t_INTEGER)>>, << <<PyInt(1)>> >>) >>,
       dest |-> [nm \in {n_t} |-> AbsentTable]] : id \in Identifiers }

Starts == MultiTableStarts \cup ValueStarts \cup TypeStarts \cup IdentifierStarts

Init ==
    /\ \E st \in Starts :
          /\ sqlite = st.src
          /\ pgCommitted = st.dest
          /\ pgWork = st.dest
          /\ pg0 = st.dest
    /\ pc = "tables"
    /\ ti = 1
    /\ ri = 1
    /\ table_exists = FALSE
    /\ pg_column_types = <<>>
    /\ stmts = <<>>
    /\ console = <<>>
    /\ run = 1
    /\ prev = "none"

Spec == Init /\ [][Next]_vars

-----------------------------------------------------------------------------
(* Properties of the table loop *)

TableIndexes == 1..Len(sqlite)

\* the destination table of source table i when this invocation started
DestAtStart(i) == pg0[sqlite[i].name]

PopulatedAtStart(i) == DestAtStart(i).exists /\ Len(DestAtStart(i).rows) > 0

StatementsFor(i) == {k \in 1..Len(stmts) : stmts[k].ti = i}

InsertsFor(i) == {k \in StatementsFor(i) : stmts[k].op = "INSERT"}

CreatesFor(i) == {k \in StatementsFor(i) : stmts[k].op = "CREATE"}

ProgressFor(i) == {k \in 1..Len(console) : console[k].ti = i}

SkipLines == {"skipping: migration table", "skipping table: has existing rows"}

\* the table loop has gone past table i without an error
Passed(i) == i < ti

\* C1: a table that exists at the destination with at least one row when it is
\* planned gets no CREATE TABLE and no INSERT statement: it is left as it was,
\* reported as skipped, and the loop goes on to the next table.
C1_PopulatedTableNeverMigrated ==
    \A i \in TableIndexes :
        PopulatedAtStart(i) =>
            /\ StatementsFor(i) = {}
            /\ pgWork[sqlite[i].name] = DestAtStart(i)
            /\ pgCommitted[sqlite[i].name] = DestAtStart(i)
            /\ \A k \in ProgressFor(i) :
                   /\ console[k].line \in SkipLines
                   /\ Passed(i)
            /\ Passed(i) => ProgressFor(i) # {}

\* a populated table was skipped and a later table was then migrated
C1_Witness ==
    \E i, j \in TableIndexes :
        /\ i < j
        /\ PopulatedAtStart(i)
        /\ \E k \in ProgressFor(i) : console[k].line = "skipping table: has existing rows"
        /\ InsertsFor(j) # {}

BookkeepingNames ==
    { <<"m","i","g","r","a","t","e","h","i","s","t","o","r","y">>,
      <<"a","l","e","m","b","i","c","_","v","e","r","s","i","o","n">> }

\* the decision the planner is specified to take
Decision(tableName, destExists, destRowCount) ==
    IF tableName \in BookkeepingNames THEN "Skip"
    ELSE IF destExists /\ destRowCount > 0 THEN "Skip"
    ELSE IF destExists THEN "MigrateIntoExisting"
    ELSE "CreateAndMigrate"

DecisionFor(i) ==
    Decision(sqlite[i].name, DestAtStart(i).exists, Len(DestAtStart(i).rows))

\* C2: every table the loop has decided on got exactly one decision, the one
\* that the first matching rule gives for (name, destination exists, destination
\* row count): bookkeeping name -> skip whatever the destination holds; populated
\* -> skip; existing and empty -> inserts and no CREATE TABLE; absent -> a CREATE
\* TABLE that precedes every INSERT of that table.
C2_PlannerDecision ==
    /\ \A i \in TableIndexes : Passed(i) => Cardinality(ProgressFor(i)) = 1
    /\ \A k \in 1..Len(console) :
          LET i == console[k].ti
              d == DecisionFor(i)
          IN  /\ Cardinality(ProgressFor(i)) = 1
              /\ (d = "Skip") <=> (console[k].line \in SkipLines)
              /\ d = "Skip" => StatementsFor(i) = {}
              /\ d = "MigrateIntoExisting" =>
                     /\ console[k].line = "migrating"
                     /\ CreatesFor(i) = {}
                     /\ Passed(i) => Cardinality(InsertsFor(i)) = Len(sqlite[i].rows)
              /\ d = "CreateAndMigrate" =>
                     /\ console[k].line = "migrating"
                     /\ Cardinality(CreatesFor(i)) = 1
                     /\ \A c \in CreatesFor(i) : \A n \in InsertsFor(i) : c < n
                     /\ Passed(i) => Cardinality(InsertsFor(i)) = Len(sqlite[i].rows)

\* alembic_version was skipped although it exists empty at the destination, an
\* empty existing table received its rows without a CREATE, or an absent one was
\* created and filled: here the first and the last in one run
C2_Witness ==
    \E i, j \in TableIndexes :
        /\ sqlite[i].name \in BookkeepingNames
        /\ DestAtStart(i).exists /\ DestAtStart(i).rows = <<>>
        /\ Passed(i)
        /\ DecisionFor(j) = "CreateAndMigrate"
        /\ Passed(j)
        /\ InsertsFor(j) # {}

\* the values of the accepted INSERT statements of table i, in order
RECURSIVE InsertedValues(_, _)
InsertedValues(i, k) ==
    IF k > Len(stmts) THEN <<>>
    ELSE IF stmts[k].ti = i /\ stmts[k].op = "INSERT"
         THEN <<stmts[k].values>> \o InsertedValues(i, k + 1)
         ELSE InsertedValues(i, k + 1)

Migrated(i) == \E k \in ProgressFor(i) : console[k].line = "migrating"

\* C3: one transaction per table, fail-fast. When the run has failed at table
\* ti: every earlier migrated table holds, committed, all the rows inserted for
\* it; the failing table is as it was before the run (its rows and its creation
\* rolled back); no statement was issued for a later table; and the run cannot
\* go on to insert, commit or report success.
C3_FailFastPerTableTransaction ==
    pc = "error" =>
        /\ \A i \in TableIndexes :
              (i < ti /\ Migrated(i)) =>
                  /\ Cardinality(InsertsFor(i)) = Len(sqlite[i].rows)
                  /\ pgCommitted[sqlite[i].name].exists
                  /\ pgCommitted[sqlite[i].name].rows
                        = DestAtStart(i).rows \o InsertedValues(i, 1)
        /\ ti \in TableIndexes
        /\ pgCommitted[sqlite[ti].name] = DestAtStart(ti)
        /\ pgWork = pgCommitted
        /\ \A k \in 1..Len(stmts) : stmts[k].ti <= ti
        /\ \A k \in 1..Len(console) : console[k].ti <= ti
        /\ ~ENABLED (InsertRow \/ CommitTable \/ BeginMigrate \/ Finish)

\* the run failed in the second table after inserting at least one of its rows,
\* and the first table had been migrated
C3_Witness ==
    /\ pc = "error"
    /\ ti = 2
    /\ Migrated(1)
    /\ Len(pgCommitted[sqlite[1].name].rows) > Len(DestAtStart(1).rows)
    /\ \E k \in InsertsFor(2) : stmts[k].ri < ri

\* C10: an invocation that follows a successful one on the same databases
\* issues no INSERT and leaves every destination table exactly as the first
\* left it.
C10_RerunChangesNothing ==
    (run > 1 /\ prev = "done") =>
        /\ \A k \in 1..Len(stmts) : stmts[k].op # "INSERT"
        /\ pgWork = pg0
        /\ pgCommitted = pg0

\* the second run is over: it skipped a table that the first run had filled and
\* went again through a table that has no source rows
C10_Witness ==
    /\ run = 2
    /\ prev = "done"
    /\ pc = "done"
    /\ \E i, j \in TableIndexes :
          /\ sqlite[i].rows # <<>>
          /\ \E k \in ProgressFor(i) : console[k].line = "skipping table: has existing rows"
          /\ \A r \in 1..Len(DestAtStart(i).rows) : DestAtStart(i).rows[r] # ExistingRow
          /\ sqlite[j].rows = <<>>
          /\ Migrated(j)

-----------------------------------------------------------------------------
(* Properties of the statements *)

n_orders == <<"o","r","d","e","r","s">>

lit_1 == <<"1">>
lit_As == <<"'","A","'","'","s","'">>
lit_text_read_write == <<"'","r","e","a","d",",","w","r","i","t","e","'">>
lit_array_read_write ==
    <<"A","R","R","A","Y","[","'","r","e","a","d","'",",","'","w","r","i","t","e","'","]">>

\* C4: when orders(id INTEGER, name TEXT, scope TEXT) is absent at the
\* destination, its CREATE TABLE maps scope to the array type and the INSERT of
\* the row (1, "A's", "read,write") carries 1, 'A''s', ARRAY['read','write'].
C4_EndToEndArrayLiteral ==
    \A k \in 1..Len(stmts) :
        (stmts[k].name = n_orders /\ ~pg0[n_orders].exists) =>
            /\ stmts[k].op = "CREATE" => stmts[k].types = <<"INTEGER", "TEXT", "TEXT[]">>
            /\ stmts[k].op = "INSERT" =>
                   /\ \E c \in 1..(k - 1) : stmts[c].op = "CREATE" /\ stmts[c].name = n_orders
                   /\ stmts[k].values = <<lit_1, lit_As, lit_array_read_write>>

\* what the program does there instead: the column kinds are read before the
\* table is created, so none is known and the scope value goes out as quoted text
C4_Observed ==
    \A k \in 1..Len(stmts) :
        (stmts[k].name = n_orders /\ ~pg0[n_orders].exists) =>
            /\ stmts[k].op = "CREATE" => stmts[k].types = <<"INTEGER", "TEXT", "TEXT[]">>
            /\ stmts[k].op = "INSERT" =>
                   stmts[k].values = <<lit_1, lit_As, lit_text_read_write>>

\* the statement issued last is an INSERT of the table being processed, so that
\* pg_column_types still holds the kinds it was built with
LastIsInsert ==
    /\ pc \in {"rows", "error"}
    /\ stmts # <<>>
    /\ stmts[Len(stmts)].op = "INSERT"
    /\ stmts[Len(stmts)].ti = ti

Last == stmts[Len(stmts)]

LastRow == sqlite[Last.ti].rows[Last.ri]

LastColumns == 1..Len(Last.values)

\* the destination kind the translation was given for column p
KindGiven(p) ==
    LET nm == sqlite[Last.ti].schema[p].name
    IN  IF nm \in DOMAIN pg_column_types THEN pg_column_types[nm] ELSE "None"

Count(s, c) == Cardinality({i \in 1..Len(s) : s[i] = c})

\* reads a literal's interior back: '' is one quote, a lone quote is an error
RECURSIVE Undouble(_)
Undouble(x) ==
    IF x = <<>> THEN [ok |-> TRUE, s |-> <<>>]
    ELSE IF Head(x) = "'"
         THEN IF Len(x) >= 2 /\ x[2] = "'"
              THEN LET r == Undouble(SubSeq(x, 3, Len(x)))
                   IN  [ok |-> r.ok, s |-> <<"'">> \o r.s]
              ELSE [ok |-> FALSE, s |-> <<>>]
         ELSE LET r == Undouble(Tail(x))
              IN  [ok |-> r.ok, s |-> <<Head(x)>> \o r.s]

\* l is text between single quotes with exactly its quotes doubled
IsQuoted(l, text) ==
    /\ Len(l) >= 2
    /\ l[1] = "'" /\ l[Len(l)] = "'"
    /\ LET inner == SubSeq(l, 2, Len(l) - 1)
       IN  /\ Undouble(inner).ok
           /\ Undouble(inner).s = text
           /\ Len(inner) = Len(text) + Count(text, "'")
           /\ Count(inner, "\\") = Count(text, "\\")

\* C5: a string value in a column whose kind is neither boolean nor array goes
\* out as a quote, the value with each single quote doubled and nothing else
\* changed, and a quote; its interior holds no unpaired quote.
C5_TextLiteralQuoting ==
    LastIsInsert =>
        \A p \in LastColumns :
            (LastRow[p].t = "str" /\ KindGiven(p) \notin {"boolean", "ARRAY"}) =>
                IsQuoted(Last.values[p], LastRow[p].s)

\* O'Brien went out as 'O''Brien'
C5_Witness ==
    /\ LastIsInsert
    /\ \E p \in LastColumns :
          /\ LastRow[p] = PyStr(<<"O","'","B","r","i","e","n">>)
          /\ KindGiven(p) = "text"
          /\ Last.values[p] = <<"'","O","'","'","B","r","i","e","n","'">>

Commas(s) == {i \in 1..Len(s) : s[i] = ","}

SetMin(S) == CHOOSE a \in S : \A b \in S : a <= b
SetMax(S) == CHOOSE a \in S : \A b \in S : b <= a

PieceStarts(s) == {1} \cup {c + 1 : c \in Commas(s)}

\* the j-th comma-separated piece of s
PieceOf(s, j) ==
    LET a == CHOOSE x \in PieceStarts(s) :
                 Cardinality({b \in PieceStarts(s) : b < x}) = j - 1
        later == {c \in Commas(s) : c >= a}
    IN  SubSeq(s, a, IF later = {} THEN Len(s) ELSE SetMin(later) - 1)

Blank == {" ", "\t", "\n", "\r"}

Trimmed(x) ==
    LET solid == {i \in 1..Len(x) : x[i] \notin Blank}
    IN  IF solid = {} THEN <<>> ELSE SubSeq(x, SetMin(solid), SetMax(solid))

\* l is ARRAY[e1,...,en], one quoted, trimmed element per piece of text, in order
IsArrayOf(l, text) ==
    /\ Len(l) >= 7
    /\ SubSeq(l, 1, 6) = <<"A","R","R","A","Y","[">>
    /\ l[Len(l)] = "]"
    /\ LET inner == SubSeq(l, 7, Len(l) - 1)
           n == Cardinality(Commas(text)) + 1
       IN  /\ Cardinality(Commas(inner)) + 1 = n
           /\ \A j \in 1..n : IsQuoted(PieceOf(inner, j), Trimmed(PieceOf(text, j)))

IsNullLiteral(l) == l = <<"N","U","L","L">>

\* the run failed while translating row ri of table ti: no statement was
\* issued for that row
TranslationFailed ==
    /\ pc = "error"
    /\ Migrated(ti)
    /\ ri <= Len(sqlite[ti].rows)
    /\ \A k \in InsertsFor(ti) : stmts[k].ri # ri

KindOfCurrent(p) ==
    LET nm == sqlite[ti].schema[p].name
    IN  IF nm \in DOMAIN pg_column_types THEN pg_column_types[nm] ELSE "None"

IsNumberOne(v) == (v.t = "int" /\ v.n = 1) \/ (v.t = "float" /\ v.n = 10)

\* C7: in a boolean column NULL goes out as NULL, a value numerically equal to
\* 1 as true, and every other value (0, 2, negative, a string, a fraction) as
\* false, never as an array, a quoted text or a number.
C7_BooleanLiteral ==
    LastIsInsert =>
        \A p \in LastColumns :
            KindGiven(p) = "boolean" =>
                Last.values[p] =
                    IF LastRow[p].t = "null" THEN <<"N","U","L","L">>
                    ELSE IF IsNumberOne(LastRow[p]) THEN <<"t","r","u","e">>
                    ELSE <<"f","a","l","s","e">>

\* the value 2 went out as false in a boolean column
C7_Witness ==
    /\ LastIsInsert
    /\ \E p \in LastColumns :
          /\ LastRow[p] = PyInt(2)
          /\ KindGiven(p) = "boolean"
          /\ Last.values[p] = <<"f","a","l","s","e">>

\* the letters, lower case first
Letters ==
    { <<"a","A">>, <<"b","B">>, <<"c","C">>, <<"d","D">>, <<"e","E">>, <<"f","F">>,
      <<"g","G">>, <<"h","H">>, <<"i","I">>, <<"j","J">>, <<"k","K">>, <<"l","L">>,
      <<"m","M">>, <<"n","N">>, <<"o","O">>, <<"p","P">>, <<"q","Q">>, <<"r","R">>,
      <<"s","S">>, <<"t","T">>, <<"u","U">>, <<"v","V">>, <<"w","W">>, <<"x","X">>,
      <<"y","Y">>, <<"z","Z">> }

SameLetter(a, b) == a = b \/ \E l \in Letters : {a, b} = {l[1], l[2]}

\* a and b are the same word up to the case of their letters
SameWord(a, b) == Len(a) = Len(b) /\ \A i \in 1..Len(a) : SameLetter(a[i], b[i])

\* the fixed type table: declared type (any case) -> destination type
TypeTable ==
    { <<<<"i","n","t","e","g","e","r">>, "INTEGER">>,
      <<<<"r","e","a","l">>, "DOUBLE PRECISION">>,
      <<<<"t","e","x","t">>, "TEXT">>,
      <<<<"b","l","o","b">>, "BYTEA">>,
      <<<<"b","o","o","l","e","a","n">>, "BOOLEAN">>,
      <<<<"t","i","m","e","s","t","a","m","p">>, "TIMESTAMP">>,
      <<<<"j","s","o","n">>, "JSONB">>,
      <<<<"v","a","r","c","h","a","r","(","2","5","5",")">>, "VARCHAR(255)">> }

\* the destination type the mapper is specified to give
MappedType(sourceType, columnName) ==
    IF SameWord(columnName, <<"s","c","o","p","e">>) THEN "TEXT[]"
    ELSE IF \E e \in TypeTable : SameWord(sourceType, e[1])
         THEN (CHOOSE e \in TypeTable : SameWord(sourceType, e[1]))[2]
         ELSE "TEXT"

\* C8: every column of every CREATE TABLE has the type of the first matching
\* rule: the text-array type when its name is scope in any case, else the entry
\* of the fixed table for its declared type in any case, else TEXT.
C8_TypeMapping ==
    \A k \in 1..Len(stmts) :
        stmts[k].op = "CREATE" =>
            LET schema == sqlite[stmts[k].ti].schema
            IN  /\ Len(stmts[k].types) = Len(schema)
                /\ \A j \in 1..Len(schema) :
                       stmts[k].types[j] = MappedType(schema[j].type, schema[j].name)

\* a column named Scope and declared INTEGER was created as a text array, in a
\* database where the program is at a CREATE TABLE
C8_Witness ==
    \E k \in 1..Len(stmts) :
        /\ stmts[k].op = "CREATE"
        /\ sqlite[stmts[k].ti].schema[1]
              = Column(<<"S","c","o","p","e">>, <<"I","N","T","E","G","E","R">>)
        /\ stmts[k].types[1] = "TEXT[]"

ReservedWords ==
    { <<"u","s","e","r">>, <<"g","r","o","u","p">>, <<"o","r","d","e","r">>,
      <<"t","a","b","l","e">>, <<"s","e","l","e","c","t">>, <<"w","h","e","r","e">>,
      <<"f","r","o","m">>, <<"i","n","d","e","x">>,
      <<"c","o","n","s","t","r","a","i","n","t">> }

\* the identifier as it is specified to appear in a statement
Sanitized(id) ==
    IF \E w \in ReservedWords : SameWord(id, w)
    THEN <<"\"">> \o id \o <<"\"">>
    ELSE id

\* C9: in every CREATE TABLE and every INSERT, the table name and each column
\* name appear wrapped in double quotes, in their original case, when they are
\* one of the nine reserved words in any case, and unchanged otherwise.
C9_IdentifierQuoting ==
    \A k \in 1..Len(stmts) :
        LET schema == sqlite[stmts[k].ti].schema
        IN  /\ stmts[k].table = Sanitized(sqlite[stmts[k].ti].name)
            /\ Len(stmts[k].columns) = Len(schema)
            /\ \A j \in 1..Len(schema) : stmts[k].columns[j] = Sanitized(schema[j].name)

\* an INSERT into the table USer went out with the table as "USer" and the
\* column v as it is
C9_Witness ==
    \E k \in 1..Len(stmts) :
        /\ stmts[k].op = "INSERT"
        /\ sqlite[stmts[k].ti].name = <<"U","S","e","r">>
        /\ stmts[k].table = <<"\"","U","S","e","r","\"">>
        /\ stmts[k].columns = << <<"v">> >>

====
